---- MODULE Spec2Model ----
(***************************************************************************)
(* Model of frontend/src/lib/api.js: the HTTP client wrapper (fetchAPI and *)
(* the per-domain methods built on it) and the reconnecting WebSocket      *)
(* helper connectWebSocket.                                                *)
(*                                                                         *)
(* JavaScript strings whose content the code inspects (error messages,     *)
(* content types, ids) are sequences of fragments, so that                 *)
(* String.prototype.includes is a real substring test.  JavaScript objects *)
(* are records carrying a "kind" field; a property is present iff it is in *)
(* the DOMAIN of the record.                                               *)
(***************************************************************************)
EXTENDS Integers, Sequences, FiniteSets, TLC

VARIABLES pc, method, args, request, net, outcome,
          sockets, timers, now, initialCalls, delivered, parseErrors

httpVars == <<pc, method, args, request, net, outcome>>
wsVars == <<sockets, timers, now, initialCalls, delivered, parseErrors>>
vars == <<pc, method, args, request, net, outcome,
          sockets, timers, now, initialCalls, delivered, parseErrors>>

\* ---------------------------------------------------------------- bounds
MaxLen == 3
MaxPage == 2
MaxId == 6
MaxIdLen == 2
MaxSockets == 4
MaxCalls == 2
MaxTime == 15000
MaxEvents == 2

\* ------------------------------------------------------------- constants
RECONNECT_DELAY == 5000
DEFAULT_LIMIT_POSTS == 10
DEFAULT_LIMIT_COMMENTS == 20
DEFAULT_PAGE == 1

API_URL == "http://localhost:8080"

\* ------------------------------------------------------ string helpers
\* String.prototype.includes on fragment sequences
Includes(s, sub) ==
  \E i \in 0..(Len(s) - Len(sub)) : SubSeq(s, i + 1, i + Len(sub)) = sub

NoSessionText == <<"No session token provided">>
UnauthorizedText == <<"Unauthorized">>
GenericErrorText == <<"An error occurred">>
InvalidResponseText == <<"Invalid response from server">>
CreateUnavailableText == <<"Community creation not available in development mode">>
JsonContentType == <<"application/json">>

\* ------------------------------------------------------------- values
VNull == [kind |-> "null"]
VArray(items) == [kind |-> "array", items |-> items]
Return(v) == [kind |-> "return", value |-> v]
Throw(e) == [kind |-> "throw", error |-> e]
NewError(msg) == [name |-> "Error", message |-> msg]

\* JavaScript truthiness of a value read from a property
Truthy(v) ==
  CASE v.kind = "null" -> FALSE
    [] v.kind = "undefined" -> FALSE
    [] v.kind = "string" -> v.s # <<>>
    [] OTHER -> TRUE

\* property read v[f] on a non-null value
Get(v, f) == IF f \in DOMAIN v THEN v[f] ELSE [kind |-> "undefined"]
VString(s) == [kind |-> "string", s |-> s]

\* ------------------------------------------------- fetchAPI, lines 6-71
EmptyObj == [k \in {} |-> ""]

\* object spread {...a, ...b}: the keys of b win
Spread(a, b) ==
  [k \in (DOMAIN a) \cup (DOMAIN b) |-> IF k \in DOMAIN b THEN b[k] ELSE a[k]]

\* options.body instanceof FormData
isFormData(options) ==
  "body" \in DOMAIN options /\ options["body"].kind = "formdata"

defaultHeaders(options) ==
  IF isFormData(options) THEN EmptyObj
  ELSE ("Content-Type" :> "application/json")

\* ...options.headers, where spreading undefined adds nothing
OptionHeaders(options) ==
  IF "headers" \in DOMAIN options THEN options["headers"] ELSE EmptyObj

\* the fixed fields written before the spread, so that the caller's win
fetchOptions_CallerWins(options) ==
  Spread([credentials |-> "include",
          mode |-> "cors",
          headers |-> Spread(defaultHeaders(options), OptionHeaders(options))],
         options)

fetchOptions(options) ==
  Spread(options,
         [credentials |-> "include",
          mode |-> "cors",
          headers |-> Spread(defaultHeaders(options), OptionHeaders(options))])

\* response.ok: the status is in the range 200-299
ResponseOk(resp) == resp.status >= 200 /\ resp.status <= 299

\* contentType && contentType.includes("application/json")
ContentTypeIsJson(resp) ==
  /\ "content-type" \in DOMAIN resp.headers
  /\ resp.headers["content-type"] # <<>>
  /\ Includes(resp.headers["content-type"], JsonContentType)

\* the Response object itself, returned for a non-JSON success
RawResponse(resp, endpoint) ==
  [kind |-> "response", status |-> resp.status, headers |-> resp.headers,
   url |-> VString(<<API_URL, endpoint>>)]

\* data.error || "An error occurred"; reading a property of null throws
ApiErrorOf(data) ==
  IF data.kind = "null"
  THEN [name |-> "TypeError",
        message |-> <<"Cannot read properties of null (reading 'error')">>]
  ELSE IF Truthy(Get(data, "error"))
       THEN NewError(Get(data, "error").s)
       ELSE NewError(GenericErrorText)

\* the try block of fetchAPI applied to what fetch() produced; the catch
\* block only logs and rethrows
fetchAPI(endpoint, n) ==
  IF n.type = "reject" THEN Throw(n.error)
  ELSE IF ContentTypeIsJson(n)
       THEN IF n.body.kind = "text"
            THEN Throw([name |-> "SyntaxError",
                        message |-> <<"Unexpected token in JSON">>])
            ELSE IF ~ResponseOk(n) THEN Throw(ApiErrorOf(n.body))
                 ELSE Return(n.body)
       ELSE IF ~ResponseOk(n) THEN Throw(NewError(GenericErrorText))
            ELSE Return(RawResponse(n, endpoint))

\* ------------------------------------------- mock data, lines 266-358
mockCommunities ==
  << [kind |-> "object", id |-> 1, title |-> "Cancer Survivors Support",
      category |-> "Support Groups", member_count |-> 1247,
      description |-> "A supportive community for cancer survivors sharing experiences and hope.",
      created_at |-> "2024-01-15T10:00:00Z", members |-> <<>>],
     [kind |-> "object", id |-> 2, title |-> "Nutrition & Wellness",
      category |-> "Health & Wellness", member_count |-> 892,
      description |-> "Sharing healthy recipes and wellness tips for cancer patients and survivors.",
      created_at |-> "2024-02-01T14:30:00Z", members |-> <<>>],
     [kind |-> "object", id |-> 3, title |-> "Caregivers Circle",
      category |-> "Caregivers", member_count |-> 634,
      description |-> "Support and resources for family members and caregivers.",
      created_at |-> "2024-01-20T09:15:00Z", members |-> <<>>],
     [kind |-> "object", id |-> 4, title |-> "Mental Health & Mindfulness",
      category |-> "Mental Health", member_count |-> 756,
      description |-> "Focusing on mental wellness, meditation, and emotional support.",
      created_at |-> "2024-02-10T16:45:00Z", members |-> <<>>],
     [kind |-> "object", id |-> 5, title |-> "Treatment Updates",
      category |-> "Medical", member_count |-> 423,
      description |-> "Latest treatment options and medical breakthroughs discussion.",
      created_at |-> "2024-02-15T11:20:00Z", members |-> <<>>] >>

\* the post texts are abbreviated to their first words
MockPost101 ==
  [kind |-> "object", id |-> 101,
   content |-> "Just wanted to share that I completed my 6-month check-up today",
   author_id |-> 1, author_name |-> "Sarah Johnson", author_avatar |-> VNull,
   community_id |-> 1, category |-> "Support",
   created_at |-> "2024-02-20T14:30:00Z", likes_count |-> 24, comments_count |-> 8]

MockPost102 ==
  [kind |-> "object", id |-> 102,
   content |-> "Found this amazing anti-inflammatory smoothie recipe",
   author_id |-> 2, author_name |-> "Mike Chen", author_avatar |-> VNull,
   community_id |-> 2, category |-> "Nutrition",
   created_at |-> "2024-02-19T10:15:00Z", likes_count |-> 18, comments_count |-> 5]

MockPost103 ==
  [kind |-> "object", id |-> 103,
   content |-> "As a caregiver, I've learned that taking care of yourself isn't selfish",
   author_id |-> 3, author_name |-> "Lisa Rodriguez", author_avatar |-> VNull,
   community_id |-> 3, category |-> "Caregiving",
   created_at |-> "2024-02-18T16:45:00Z", likes_count |-> 31, comments_count |-> 12]

\* object keys are strings: the table is keyed by "1", "2", "3"
mockCommunityPosts ==
  (<<"1">> :> <<MockPost101>>) @@ (<<"2">> :> <<MockPost102>>)
    @@ (<<"3">> :> <<MockPost103>>)

\* ------------------------------------------------- ids and conversions
Digits == <<"0", "1", "2", "3", "4", "5", "6", "7", "8", "9">>
IsDigit(c) == \E d \in 1..10 : Digits[d] = c
DigitVal(c) == (CHOOSE d \in 1..10 : Digits[d] = c) - 1

\* String(n) for a non-negative integer, as a sequence of characters
RECURSIVE NumToString(_)
NumToString(n) ==
  IF n < 10 THEN <<Digits[n + 1]>>
  ELSE NumToString(n \div 10) \o <<Digits[(n % 10) + 1]>>

\* ToPropertyKey / String(id): an id is a number or a string of characters
IdToString(id) == IF id.t = "num" THEN NumToString(id.n) ELSE id.s

\* parseInt on a character sequence: the longest prefix of digits, NaN if
\* there is none
RECURSIVE ParseDigits(_, _)
ParseDigits(s, acc) ==
  IF s = <<>> \/ ~IsDigit(Head(s)) THEN acc
  ELSE ParseDigits(Tail(s), acc * 10 + DigitVal(Head(s)))

parseInt(id) ==
  LET s == IdToString(id)
  IN IF s = <<>> \/ ~IsDigit(Head(s)) THEN [isNaN |-> TRUE, n |-> 0]
     ELSE [isNaN |-> FALSE, n |-> ParseDigits(s, 0)]

\* the table indexed by parseInt(communityId) instead of by the id itself
MockPostsOf_ParseInt(communityId) ==
  LET k == parseInt(communityId)
  IN IF ~k.isNaN /\ NumToString(k.n) \in DOMAIN mockCommunityPosts
     THEN mockCommunityPosts[NumToString(k.n)]
     ELSE <<>>

\* mockCommunityPosts[communityId] || []
MockPostsOf(communityId) ==
  IF IdToString(communityId) \in DOMAIN mockCommunityPosts
  THEN mockCommunityPosts[IdToString(communityId)]
  ELSE <<>>


\* ------------------------------------------------ method parameters
\* a parameter with a default value: the default applies when it is omitted
Param(a, name, default) == IF name \in DOMAIN a THEN a[name] ELSE default

IsArray(v) == v.kind = "array"

\* ------------------------------------------------- auth, lines 74-113
\* the message compared for equality instead of searched
auth_getSession_Exact(r) ==
  IF r.kind = "throw"
  THEN IF r.error.message = NoSessionText THEN Return(VNull)
       ELSE r
  ELSE r

auth_getSession(r) ==
  IF r.kind = "throw"
  THEN IF Includes(r.error.message, NoSessionText) THEN Return(VNull)
       ELSE r
  ELSE r

auth_checkAuth(r) ==
  IF r.kind = "throw"
  THEN Return([kind |-> "object", isAuthenticated |-> FALSE, user |-> VNull])
  ELSE Return([kind |-> "object", isAuthenticated |-> TRUE, user |-> r.value])

\* ----------------------------------------------- posts, lines 116-188
posts_getPosts(a, r) ==
  LET page == Param(a, "page", DEFAULT_PAGE)
      limit == Param(a, "limit", DEFAULT_LIMIT_POSTS)
  IN IF r.kind = "throw" THEN r
     ELSE IF IsArray(r.value)
          THEN Return([kind |-> "object", posts |-> r.value, page |-> page,
                       limit |-> limit, total |-> Len(r.value.items),
                       hasMore |-> (Len(r.value.items) = limit)])
          ELSE r

posts_getLikedPosts(a, r) ==
  LET page == Param(a, "page", DEFAULT_PAGE)
      limit == Param(a, "limit", DEFAULT_LIMIT_POSTS)
  IN IF r.kind = "throw" THEN r
     ELSE IF IsArray(r.value)
          THEN Return([kind |-> "object", posts |-> r.value, page |-> page,
                       limit |-> limit, total |-> Len(r.value.items),
                       hasMore |-> (Len(r.value.items) = limit)])
          ELSE r

posts_getCommentedPosts(a, r) ==
  LET page == Param(a, "page", DEFAULT_PAGE)
      limit == Param(a, "limit", DEFAULT_LIMIT_POSTS)
  IN IF r.kind = "throw" THEN r
     ELSE IF IsArray(r.value)
          THEN Return([kind |-> "object", posts |-> r.value, page |-> page,
                       limit |-> limit, total |-> Len(r.value.items),
                       hasMore |-> (Len(r.value.items) = limit)])
          ELSE r

\* hasMore computed with >= instead of ===
posts_getSavedPosts_AtLeast(a, r) ==
  LET page == Param(a, "page", DEFAULT_PAGE)
      limit == Param(a, "limit", DEFAULT_LIMIT_POSTS)
  IN IF r.kind = "throw" THEN r
     ELSE IF IsArray(r.value)
          THEN Return([kind |-> "object", posts |-> r.value, page |-> page,
                       limit |-> limit, total |-> Len(r.value.items),
                       hasMore |-> (Len(r.value.items) >= limit)])
          ELSE r

posts_getSavedPosts(a, r) ==
  LET page == Param(a, "page", DEFAULT_PAGE)
      limit == Param(a, "limit", DEFAULT_LIMIT_POSTS)
  IN IF r.kind = "throw" THEN r
     ELSE IF IsArray(r.value)
          THEN Return([kind |-> "object", posts |-> r.value, page |-> page,
                       limit |-> limit, total |-> Len(r.value.items),
                       hasMore |-> (Len(r.value.items) = limit)])
          ELSE r

\* -------------------------------------------- comments, lines 219-237
comments_getPostComments(a, r) ==
  LET page == Param(a, "page", DEFAULT_PAGE)
      limit == Param(a, "limit", DEFAULT_LIMIT_COMMENTS)
  IN IF r.kind = "throw" THEN r
     ELSE IF IsArray(r.value)
          THEN Return([kind |-> "object", comments |-> r.value, page |-> page,
                       limit |-> limit, total |-> Len(r.value.items)])
          ELSE r

\* ----------------------------------------- communities, lines 361-527
\* no catch: the failure reaches the caller
communities_getCommunities_NoCatch(r) ==
  IF r.kind = "throw" THEN r
  ELSE IF IsArray(r.value)
       THEN Return([kind |-> "object", communities |-> r.value,
                    total |-> Len(r.value.items)])
       ELSE r

communities_getCommunities(r) ==
  IF r.kind = "throw"
  THEN Return([kind |-> "object", communities |-> VArray(mockCommunities),
               total |-> Len(mockCommunities)])
  ELSE IF IsArray(r.value)
       THEN Return([kind |-> "object", communities |-> r.value,
                    total |-> Len(r.value.items)])
       ELSE r

\* data.communities || [] ; reading a property of null throws inside the
\* try block, so the catch answers with the mock list
communities_getAll(r) ==
  IF r.kind = "throw" THEN Return(VArray(mockCommunities))
  ELSE IF IsArray(r.value) THEN r
       ELSE IF r.value.kind = "null" THEN Return(VArray(mockCommunities))
            ELSE IF Truthy(Get(r.value, "communities"))
                 THEN Return(Get(r.value, "communities"))
                 ELSE Return(VArray(<<>>))

\* the catch answers with a mock success, as joinCommunity does
communities_createCommunity_Mock(r) ==
  IF r.kind = "throw"
  THEN Return([kind |-> "object", success |-> TRUE,
               message |-> "Community created"])
  ELSE r

communities_createCommunity(r) ==
  IF r.kind = "throw" THEN Throw(NewError(CreateUnavailableText))
  ELSE r

\* the id compared as it is, without parseInt: only numbers can match
FindMockCommunity_NoParse(communityId) ==
  {i \in 1..Len(mockCommunities) :
     communityId.t = "num" /\ mockCommunities[i].id = communityId.n}

\* mockCommunities.find(c => c.id === parseInt(communityId))
FindMockCommunity(communityId) ==
  LET k == parseInt(communityId)
  IN {i \in 1..Len(mockCommunities) :
        ~k.isNaN /\ mockCommunities[i].id = k.n}

communities_getCommunity(a, r) ==
  IF r.kind = "throw"
  THEN LET found == FindMockCommunity(a.communityId)
       IN IF found # {}
          THEN LET i == CHOOSE j \in found : \A l \in found : j <= l
               IN Return([mockCommunities[i] EXCEPT !.members = <<>>])
          ELSE r
  ELSE r

communities_joinCommunity(r) ==
  IF r.kind = "throw"
  THEN Return([kind |-> "object", success |-> TRUE,
               message |-> "Successfully joined community"])
  ELSE r

communities_getPosts(a, r) ==
  LET page == Param(a, "page", DEFAULT_PAGE)
      limit == Param(a, "limit", DEFAULT_LIMIT_POSTS)
  IN IF r.kind = "throw"
     THEN LET posts == MockPostsOf(a.communityId)
          IN Return([kind |-> "object", posts |-> VArray(posts), page |-> page,
                     limit |-> limit, total |-> Len(posts)])
     ELSE IF IsArray(r.value)
          THEN Return([kind |-> "object", posts |-> r.value, page |-> page,
                       limit |-> limit, total |-> Len(r.value.items)])
          ELSE r

communities_getEvents(r) ==
  IF r.kind = "throw" THEN Return(VArray(<<>>)) ELSE r

\* ------------------------------------------- messages, lines 628-640
messages_markAsRead(r) == r

\* --------------------------------------------- upload, lines 723-745
\* the response handed back without looking for its url
upload_uploadFile_NoCheck(r) == r

\* the catch swallows the failure
upload_uploadFile_Swallow(r) ==
  IF r.kind = "throw" THEN Return(VNull)
  ELSE IF ~Truthy(r.value) \/ ~Truthy(Get(r.value, "url"))
       THEN Throw(NewError(InvalidResponseText))
       ELSE r

\* !response || !response.url
upload_uploadFile(r) ==
  IF r.kind = "throw" THEN r
  ELSE IF ~Truthy(r.value) \/ ~Truthy(Get(r.value, "url"))
       THEN Throw(NewError(InvalidResponseText))
       ELSE r


\* ------------------------------------- what the network can answer
Items == {[kind |-> "object", id |-> i] : i \in 1..2}
ArraysUpTo(n) == {VArray(q) : q \in UNION {[1..k -> Items] : k \in 0..n}}

ErrorTexts ==
  {<<>>, NoSessionText, <<"Unauthorized: ">> \o NoSessionText,
   <<"Internal server error">>}
UrlTexts == {<<>>, <<"/uploads/", "a.png">>}

BodyObjects ==
  {[kind |-> "object"]}
    \cup {[kind |-> "object", error |-> VString(e)] : e \in ErrorTexts}
    \cup {[kind |-> "object", url |-> VString(u)] : u \in UrlTexts}
    \cup {[kind |-> "object", error |-> VString(e), url |-> VString(u)] :
            e \in ErrorTexts, u \in UrlTexts}
    \cup {[kind |-> "object", communities |-> c] : c \in ArraysUpTo(1)}

\* a body is text that is not JSON, or a JSON value
Bodies == {[kind |-> "text"], VNull} \cup ArraysUpTo(MaxLen) \cup BodyObjects

Statuses == {200, 500}

ResponseHeaders ==
  {EmptyObj,
   "content-type" :> JsonContentType,
   "content-type" :> (JsonContentType \o <<"; charset=utf-8">>),
   "content-type" :> <<"text/html">>}

\* fetch() rejects on a transport failure, otherwise resolves to a response
NetOutcomes ==
  {[type |-> "reject", error |-> [name |-> "TypeError", message |-> m]] :
     m \in {<<"Failed to fetch">>, <<"NetworkError when attempting to fetch resource.">>}}
    \cup {[type |-> "response", status |-> st, headers |-> h, body |-> b] :
            st \in Statuses, h \in ResponseHeaders, b \in Bodies}

\* ------------------------------------------------ what callers pass
Chars == {"0", "1", "4", "a"}
IdStrings == UNION {[1..k -> Chars] : k \in 1..MaxIdLen}
CommunityIds ==
  {[t |-> "num", n |-> i] : i \in 0..MaxId}
    \cup {[t |-> "str", s |-> q] : q \in IdStrings}

\* (page, limit) of the list methods; both omitted, or both given
ListArgs ==
  {EmptyObj} \cup {[page |-> MaxPage, limit |-> l] : l \in 0..(MaxLen + 1)}

WithId(a, id) == a @@ ("communityId" :> id)

\* the options bags of a direct fetchAPI call
Opt(m, b) ==
  (IF m = "GET" THEN EmptyObj ELSE ("method" :> m))
    @@ (IF b = "none" THEN EmptyObj ELSE ("body" :> [kind |-> b]))

CallerHeaders ==
  {EmptyObj, "X-Requested-With" :> "XMLHttpRequest",
   "Content-Type" :> "text/plain"}

OptionBags ==
  {o1 @@ o2 @@ o3 @@ o4 :
     o1 \in {Opt(m, b) : m \in {"GET", "POST"}, b \in {"none", "json", "formdata"}},
     o2 \in {EmptyObj} \cup {("headers" :> h) : h \in CallerHeaders},
     o3 \in {EmptyObj, "credentials" :> "omit"},
     o4 \in {EmptyObj, "mode" :> "no-cors"}}

\* the methods that are a bare fetchAPI(endpoint, options) call
D(name, endpoint, m, b) == [name |-> name, endpoint |-> endpoint, options |-> Opt(m, b)]

DirectMethods ==
  { D("auth.register", "/api/auth/register", "POST", "json"),
    D("auth.login", "/api/auth/login", "POST", "json"),
    D("auth.logout", "/api/auth/logout", "POST", "none"),
    D("posts.createPost", "/api/posts", "POST", "json"),
    D("posts.updatePost", "/api/posts", "PUT", "json"),
    D("posts.deletePost", "/api/posts", "DELETE", "json"),
    D("posts.getReactions", "/api/posts/${postId}/reactions", "GET", "none"),
    D("posts.addReaction", "/api/posts/${postId}/reactions", "POST", "json"),
    D("comments.createComment", "/api/posts/${postId}/comments", "POST", "json"),
    D("comments.updateComment", "/api/comments/${commentId}", "PUT", "json"),
    D("comments.deleteComment", "/api/comments/${commentId}", "DELETE", "none"),
    D("comments.getReactions", "/api/comments/${commentId}/reactions", "GET", "none"),
    D("comments.addReaction", "/api/comments/${commentId}/reactions", "POST", "json"),
    D("communities.updateCommunity", "/api/communities/${communityId}", "PUT", "json"),
    D("communities.deleteCommunity", "/api/communities/${communityId}", "DELETE", "none"),
    D("communities.leaveCommunity", "/api/communities/${communityId}/join", "DELETE", "none"),
    D("communities.inviteToCommunity", "/api/communities/${communityId}/invite", "POST", "json"),
    D("communities.updateMember", "/api/communities/${communityId}/members/${userId}", "PUT", "json"),
    D("communities.removeMember", "/api/communities/${communityId}/members/${userId}", "DELETE", "none"),
    D("communities.createPost", "/api/communities/${communityId}/posts", "POST", "json"),
    D("communities.createEvent", "/api/communities/${communityId}/events", "POST", "json"),
    D("communities.respondToEvent", "/api/communities/events/${eventId}/respond", "POST", "json"),
    D("users.getProfile", "/api/users/profile", "GET", "none"),
    D("users.getProfile", "/api/users/${userId}/profile", "GET", "none"),
    D("users.updateProfile", "/api/users/profile", "PUT", "json"),
    D("users.updatePrivacy", "/api/users/profile/privacy", "PUT", "json"),
    D("users.changePassword", "/api/users/change-password", "PUT", "json"),
    D("users.deleteAccount", "/api/users/account", "DELETE", "json"),
    D("users.getFollowers", "/api/users/followers", "GET", "none"),
    D("users.getFollowers", "/api/users/${userID}/followers", "GET", "none"),
    D("users.getFollowing", "/api/users/following", "GET", "none"),
    D("users.getFollowing", "/api/users/${userID}/following", "GET", "none"),
    D("users.getFollowCounts", "/api/users/counts", "GET", "none"),
    D("users.getFollowCounts", "/api/users/${userID}/counts", "GET", "none"),
    D("users.getFollowStatus", "/api/users/${userID}/follow-status", "GET", "none"),
    D("users.followUser", "/api/users/${userID}/follow", "POST", "none"),
    D("users.unfollowUser", "/api/users/${userID}/follow", "DELETE", "none"),
    D("users.cancelFollowRequest", "/api/users/${userID}/follow-request", "DELETE", "none"),
    D("users.acceptFollowRequest", "/api/users/${userID}/accept-follow", "POST", "none"),
    D("users.getSuggestedUsers", "/api/users/suggested", "GET", "none"),
    D("users.getOnlineUsers", "/api/users/online", "GET", "none"),
    D("users.getAllUsers", "/api/users/all", "GET", "none"),
    D("users.acceptMessageRequest", "/api/users/accept-message-request?requester_id=${requesterId}", "POST", "none"),
    D("messages.getConversations", "/api/messages/conversations", "GET", "none"),
    D("messages.getMessages", "/api/messages/${userId}?page=${page}&limit=${limit}", "GET", "none"),
    D("messages.sendMessage", "/api/messages/${userId}", "POST", "json"),
    D("messages.getUnreadCount", "/api/messages/unread-count", "GET", "none"),
    D("messages.getCommunityMessages", "/api/communities/${communityId}/messages?page=${page}&limit=${limit}", "GET", "none"),
    D("messages.sendCommunityMessage", "/api/communities/${communityId}/messages", "POST", "json"),
    D("notifications.getNotifications", "/api/notifications?${params}", "GET", "none"),
    D("notifications.markAsRead", "/api/notifications/read?id=${notificationId}", "PUT", "none"),
    D("notifications.markAllAsRead", "/api/notifications/read-all", "PUT", "none"),
    D("notifications.getUnreadCount", "/api/notifications/unread-count", "GET", "none"),
    D("activity.getUserActivities", "/api/activity", "GET", "none"),
    D("activity.getUserActivities", "/api/activity/${userID}", "GET", "none"),
    D("activity.getUserPosts", "/api/activity/posts", "GET", "none"),
    D("activity.getUserPosts", "/api/activity/${userID}/posts", "GET", "none"),
    D("activity.hideActivity", "/api/activity/${activityID}/hide", "PUT", "none"),
    D("activity.unhideActivity", "/api/activity/${activityID}/unhide", "PUT", "none"),
    D("activity.getActivitySettings", "/api/activity/settings", "GET", "none"),
    D("activity.updateActivitySettings", "/api/activity/settings", "PUT", "json") }

\* ------------------------------------------------------ HTTP calls
NoOutcome == [kind |-> "none"]
NoNet == [type |-> "none"]
NoRequest == [endpoint |-> "", options |-> EmptyObj, fetchOptions |-> EmptyObj]

\* request.options is the options bag the method passed to fetchAPI and
\* request.fetchOptions what fetchAPI handed to fetch().
\* one call, from the method's entry to the settling of its promise: the
\* request that went out, what the network answered, and what the method
\* handed to its caller.  The client keeps nothing between calls.
Called(m, a, endpoint, options, n, out) ==
  /\ pc' = "done"
  /\ method' = m
  /\ args' = a
  /\ request' = [endpoint |-> endpoint, options |-> options,
                 fetchOptions |-> fetchOptions(options)]
  /\ net' = n
  /\ outcome' = out
  /\ UNCHANGED wsVars

Call_fetchAPI ==
  /\ pc = "idle"
  /\ \E o \in OptionBags, n \in NetOutcomes :
    Called("fetchAPI", EmptyObj, "/api/endpoint", o, n,
           fetchAPI("/api/endpoint", n))

Call_direct ==
  /\ pc = "idle"
  /\ \E d \in DirectMethods, n \in NetOutcomes :
    Called(d.name, EmptyObj, d.endpoint, d.options, n, fetchAPI(d.endpoint, n))

Call_auth_getSession ==
  /\ pc = "idle"
  /\ \E n \in NetOutcomes :
    Called("auth.getSession", EmptyObj, "/api/auth/session", EmptyObj, n,
           auth_getSession(fetchAPI("/api/auth/session", n)))

Call_auth_checkAuth ==
  /\ pc = "idle"
  /\ \E n \in NetOutcomes :
    Called("auth.checkAuth", EmptyObj, "/api/auth/session", EmptyObj, n,
           auth_checkAuth(fetchAPI("/api/auth/session", n)))

Call_posts_getPosts ==
  /\ pc = "idle"
  /\ \E a \in ListArgs, n \in NetOutcomes :
    LET ep == "/api/posts?page=${page}&limit=${limit}"
    IN Called("posts.getPosts", a, ep, EmptyObj, n,
              posts_getPosts(a, fetchAPI(ep, n)))

Call_posts_getLikedPosts ==
  /\ pc = "idle"
  /\ \E a \in ListArgs, n \in NetOutcomes :
    LET ep == "/api/posts/liked?page=${page}&limit=${limit}"
    IN Called("posts.getLikedPosts", a, ep, EmptyObj, n,
              posts_getLikedPosts(a, fetchAPI(ep, n)))

Call_posts_getCommentedPosts ==
  /\ pc = "idle"
  /\ \E a \in ListArgs, n \in NetOutcomes :
    LET ep == "/api/posts/commented?page=${page}&limit=${limit}"
    IN Called("posts.getCommentedPosts", a, ep, EmptyObj, n,
              posts_getCommentedPosts(a, fetchAPI(ep, n)))

Call_posts_getSavedPosts ==
  /\ pc = "idle"
  /\ \E a \in ListArgs, n \in NetOutcomes :
    LET ep == "/api/posts/saved?page=${page}&limit=${limit}"
    IN Called("posts.getSavedPosts", a, ep, EmptyObj, n,
              posts_getSavedPosts(a, fetchAPI(ep, n)))

Call_comments_getPostComments ==
  /\ pc = "idle"
  /\ \E a \in ListArgs, n \in NetOutcomes :
    LET ep == "/api/posts/${postId}/comments?page=${page}&limit=${limit}"
    IN Called("comments.getPostComments", a, ep, EmptyObj, n,
              comments_getPostComments(a, fetchAPI(ep, n)))

Call_communities_getCommunities ==
  /\ pc = "idle"
  /\ \E n \in NetOutcomes :
    Called("communities.getCommunities", EmptyObj, "/api/communities", EmptyObj, n,
           communities_getCommunities(fetchAPI("/api/communities", n)))

Call_communities_getAll ==
  /\ pc = "idle"
  /\ \E n \in NetOutcomes :
    Called("communities.getAll", EmptyObj, "/api/communities", EmptyObj, n,
           communities_getAll(fetchAPI("/api/communities", n)))

Call_communities_createCommunity ==
  /\ pc = "idle"
  /\ \E n \in NetOutcomes :
    Called("communities.createCommunity", EmptyObj, "/api/communities",
           Opt("POST", "json"), n,
           communities_createCommunity(fetchAPI("/api/communities", n)))

Call_communities_getCommunity ==
  /\ pc = "idle"
  /\ \E id \in CommunityIds, n \in NetOutcomes :
    LET ep == "/api/communities/${communityId}"
        a == WithId(EmptyObj, id)
    IN Called("communities.getCommunity", a, ep, EmptyObj, n,
              communities_getCommunity(a, fetchAPI(ep, n)))

Call_communities_joinCommunity ==
  /\ pc = "idle"
  /\ \E n \in NetOutcomes :
    LET ep == "/api/communities/${communityId}/join"
    IN Called("communities.joinCommunity", EmptyObj, ep, Opt("POST", "json"), n,
              communities_joinCommunity(fetchAPI(ep, n)))

Call_communities_getPosts ==
  /\ pc = "idle"
  /\ \E id \in CommunityIds, l \in ListArgs, n \in NetOutcomes :
    LET ep == "/api/communities/${communityId}/posts?page=${page}&limit=${limit}"
        a == WithId(l, id)
    IN Called("communities.getPosts", a, ep, EmptyObj, n,
              communities_getPosts(a, fetchAPI(ep, n)))

Call_communities_getEvents ==
  /\ pc = "idle"
  /\ \E n \in NetOutcomes :
    LET ep == "/api/communities/${communityId}/events"
    IN Called("communities.getEvents", EmptyObj, ep, EmptyObj, n,
              communities_getEvents(fetchAPI(ep, n)))

Call_messages_markAsRead ==
  /\ pc = "idle"
  /\ \E n \in NetOutcomes :
    LET ep == "/api/messages/${userId}/read"
    IN Called("messages.markAsRead", EmptyObj, ep, Opt("PUT", "none"), n,
              messages_markAsRead(fetchAPI(ep, n)))

Call_upload_uploadFile ==
  /\ pc = "idle"
  /\ \E n \in NetOutcomes :
    Called("upload.uploadFile", EmptyObj, "/api/upload",
           Opt("POST", "formdata"), n,
           upload_uploadFile(fetchAPI("/api/upload", n)))

\* the caller has consumed the outcome; the client is as it was before
Settled ==
  /\ pc = "done"
  /\ pc' = "idle"
  /\ method' = "none"
  /\ args' = EmptyObj
  /\ request' = NoRequest
  /\ net' = NoNet
  /\ outcome' = NoOutcome
  /\ UNCHANGED wsVars

WsInit ==
  /\ sockets = <<>>
  /\ timers = <<>>
  /\ now = 0
  /\ initialCalls = 0
  /\ delivered = <<>>
  /\ parseErrors = 0

Init ==
  /\ pc = "idle"
  /\ method = "none"
  /\ args = EmptyObj
  /\ request = NoRequest
  /\ net = NoNet
  /\ outcome = NoOutcome
  /\ WsInit

Next ==
  \/ Call_fetchAPI
  \/ Call_direct
  \/ Call_auth_getSession
  \/ Call_auth_checkAuth
  \/ Call_posts_getPosts
  \/ Call_posts_getLikedPosts
  \/ Call_posts_getCommentedPosts
  \/ Call_posts_getSavedPosts
  \/ Call_comments_getPostComments
  \/ Call_communities_getCommunities
  \/ Call_communities_getAll
  \/ Call_communities_createCommunity
  \/ Call_communities_getCommunity
  \/ Call_communities_joinCommunity
  \/ Call_communities_getPosts
  \/ Call_communities_getEvents
  \/ Call_messages_markAsRead
  \/ Call_upload_uploadFile
  \/ Settled

Spec == Init /\ [][Next]_vars


\* -------------------------------------- connectWebSocket, lines 748-773
Handlers == {"h1", "h2"}
\* text frames: JSON-encoded messages, and text that JSON.parse rejects
Frames == {[json |-> TRUE, data |-> "m1"], [json |-> FALSE, data |-> "{oops"]}

\* new WebSocket(...) with its three handlers bound to onMessage; held is
\* TRUE when the handle was returned to application code (the handle made by
\* a reconnection is returned to the timer callback and dropped)
NewSocket(onMessage, held) ==
  [onMessage |-> onMessage, readyState |-> "CONNECTING", held |-> held]

connectWebSocket(onMessage, held) ==
  sockets' = Append(sockets, NewSocket(onMessage, held))

\* the application opens a realtime connection
Connect(h) ==
  /\ initialCalls < MaxCalls
  /\ Len(sockets) < MaxSockets
  /\ initialCalls' = initialCalls + 1
  /\ connectWebSocket(h, TRUE)
  /\ UNCHANGED <<timers, now, delivered, parseErrors>>
  /\ UNCHANGED httpVars

\* the handshake completes; no handler is registered for it
SocketOpen(s) ==
  /\ sockets[s].readyState = "CONNECTING"
  /\ sockets' = [sockets EXCEPT ![s].readyState = "OPEN"]
  /\ UNCHANGED <<timers, now, initialCalls, delivered, parseErrors>>
  /\ UNCHANGED httpVars

\* ws.onmessage: JSON.parse, then onMessage(data); a parse failure is logged
OnMessage(s, f) ==
  /\ sockets[s].readyState = "OPEN"
  /\ Len(delivered) + parseErrors < MaxEvents
  /\ IF f.json
     THEN /\ delivered' = Append(delivered, [handler |-> sockets[s].onMessage,
                                             data |-> f.data])
          /\ UNCHANGED parseErrors
     ELSE /\ parseErrors' = parseErrors + 1
          /\ UNCHANGED delivered
  /\ UNCHANGED <<sockets, timers, now, initialCalls>>
  /\ UNCHANGED httpVars

\* ws.onerror: nothing is done
OnError(s) ==
  /\ sockets[s].readyState # "CLOSED"
  /\ UNCHANGED wsVars
  /\ UNCHANGED httpVars

\* close() as a teardown: the socket is closed at once and its close
\* handler never runs
CallerClose_Teardown(s) ==
  /\ sockets[s].held
  /\ sockets[s].readyState \in {"CONNECTING", "OPEN"}
  /\ sockets' = [sockets EXCEPT ![s].readyState = "CLOSED"]
  /\ UNCHANGED <<timers, now, initialCalls, delivered, parseErrors>>
  /\ UNCHANGED httpVars

\* the holder of a returned handle calls ws.close()
CallerClose(s) ==
  /\ sockets[s].held
  /\ sockets[s].readyState \in {"CONNECTING", "OPEN"}
  /\ sockets' = [sockets EXCEPT ![s].readyState = "CLOSING"]
  /\ UNCHANGED <<timers, now, initialCalls, delivered, parseErrors>>
  /\ UNCHANGED httpVars

\* the close handler bound twice, so that two timers are set
OnClose_Twice(s) ==
  /\ sockets[s].readyState # "CLOSED"
  /\ sockets' = [sockets EXCEPT ![s].readyState = "CLOSED"]
  /\ timers' = timers \o << [handler |-> sockets[s].onMessage,
                             due |-> now + RECONNECT_DELAY],
                            [handler |-> sockets[s].onMessage,
                             due |-> now + RECONNECT_DELAY] >>
  /\ UNCHANGED <<now, initialCalls, delivered, parseErrors>>
  /\ UNCHANGED httpVars

\* ws.onclose: setTimeout(() => connectWebSocket(onMessage), 5000)
OnClose(s) ==
  /\ sockets[s].readyState # "CLOSED"
  /\ sockets' = [sockets EXCEPT ![s].readyState = "CLOSED"]
  /\ timers' = Append(timers, [handler |-> sockets[s].onMessage,
                               due |-> now + RECONNECT_DELAY])
  /\ UNCHANGED <<now, initialCalls, delivered, parseErrors>>
  /\ UNCHANGED httpVars

\* the timer callback runs: timers of equal delay run in the order they
\* were set, none before it is due
TimerFire ==
  /\ timers # <<>>
  /\ now >= Head(timers).due
  /\ Len(sockets) < MaxSockets
  /\ connectWebSocket(Head(timers).handler, FALSE)
  /\ timers' = Tail(timers)
  /\ UNCHANGED <<now, initialCalls, delivered, parseErrors>>
  /\ UNCHANGED httpVars

\* time passes
Tick ==
  /\ now < MaxTime
  /\ now' = now + (RECONNECT_DELAY \div 2)
  /\ UNCHANGED <<sockets, timers, initialCalls, delivered, parseErrors>>
  /\ UNCHANGED httpVars

NextWS ==
  \/ \E h \in Handlers : Connect(h)
  \/ \E s \in DOMAIN sockets : SocketOpen(s)
  \/ \E s \in DOMAIN sockets, f \in Frames : OnMessage(s, f)
  \/ \E s \in DOMAIN sockets : OnError(s)
  \/ \E s \in DOMAIN sockets : CallerClose(s)
  \/ \E s \in DOMAIN sockets : OnClose(s)
  \/ TimerFire
  \/ Tick

SpecWS == Init /\ [][NextWS]_vars


\* ================================================================ claims
\* what the underlying fetchAPI call of the finished method produced
ReqResult == fetchAPI(request.endpoint, net)
RequestFailed == pc = "done" /\ ReqResult.kind = "throw"

\* the backend answered with a JSON array and a success status
BareArray ==
  /\ pc = "done"
  /\ net.type = "response"
  /\ ResponseOk(net)
  /\ ContentTypeIsJson(net)
  /\ net.body.kind = "array"

PostListMethods ==
  {"posts.getPosts", "posts.getLikedPosts", "posts.getCommentedPosts",
   "posts.getSavedPosts"}
OtherListMethods == {"comments.getPostComments", "communities.getPosts"}

\* the limit the call asked for: the argument, or the method's default
RequestedLimit ==
  IF "limit" \in DOMAIN args THEN args["limit"]
  ELSE IF method = "comments.getPostComments" THEN 20 ELSE 10

\* C1 as stated: for the six list methods, a bare array of length L with
\* requested limit M gives an envelope with hasMore = (L = M) and total = L.
C1_Original ==
  (BareArray /\ method \in PostListMethods \cup OtherListMethods) =>
    /\ outcome.kind = "return"
    /\ outcome.value.total = Len(net.body.items)
    /\ "hasMore" \in DOMAIN outcome.value
    /\ outcome.value.hasMore = (Len(net.body.items) = RequestedLimit)

\* C1 amended: the four posts list methods give hasMore = (L = M) and
\* total = L; comments.getPostComments and communities.getPosts give
\* total = L and an envelope without a hasMore field.
C1_Amended ==
  /\ (BareArray /\ method \in PostListMethods) =>
       /\ outcome.kind = "return"
       /\ outcome.value.total = Len(net.body.items)
       /\ "hasMore" \in DOMAIN outcome.value
       /\ outcome.value.hasMore = (Len(net.body.items) = RequestedLimit)
  /\ (BareArray /\ method \in OtherListMethods) =>
       /\ outcome.kind = "return"
       /\ outcome.value.total = Len(net.body.items)
       /\ "hasMore" \notin DOMAIN outcome.value

C1_Witness ==
  /\ BareArray
  /\ method = "posts.getSavedPosts"
  /\ Len(net.body.items) = MaxLen
  /\ RequestedLimit = MaxLen
  /\ outcome.value.hasMore

MockMethods ==
  {"communities.getCommunities", "communities.getAll",
   "communities.getCommunity", "communities.getPosts",
   "communities.getEvents", "communities.joinCommunity"}
AuthMethods ==
  {"auth.register", "auth.login", "auth.logout", "auth.getSession",
   "auth.checkAuth"}

\* the domain methods outside auth and outside the mock-backed ones
IsOtherDomainMethod ==
  /\ pc = "done"
  /\ method \notin MockMethods \cup AuthMethods \cup {"fetchAPI"}

\* C2 as stated: every domain method other than the community reads and
\* joinCommunity fails when its request fails, with that same error.
C2_Original ==
  (IsOtherDomainMethod /\ RequestFailed) => outcome = ReqResult

\* C2 amended: as stated, except that communities.createCommunity fails with
\* the fixed error "Community creation not available in development mode"
\* in place of the request's error.
C2_Amended ==
  (IsOtherDomainMethod /\ RequestFailed) =>
    IF method = "communities.createCommunity"
    THEN outcome = Throw(NewError(CreateUnavailableText))
    ELSE outcome = ReqResult

C2_Witness ==
  /\ method = "communities.createCommunity"
  /\ RequestFailed
  /\ net.type = "reject"
  /\ outcome.kind = "throw"
  /\ outcome.error.message = CreateUnavailableText

\* C3 as stated: getSession returns null when the failure message is exactly
\* "No session token provided" and fails with the error for any other message.
C3_Original ==
  (method = "auth.getSession" /\ RequestFailed) =>
    IF ReqResult.error.message = NoSessionText
    THEN outcome = Return(VNull)
    ELSE outcome = ReqResult

\* C3 amended: getSession returns null when the failure message contains
\* "No session token provided" and fails with the error when it does not.
C3_Amended ==
  (method = "auth.getSession" /\ RequestFailed) =>
    IF Includes(ReqResult.error.message, NoSessionText)
    THEN outcome = Return(VNull)
    ELSE outcome = ReqResult

C3_Witness ==
  /\ method = "auth.getSession"
  /\ RequestFailed
  /\ ReqResult.error.message = <<"Unauthorized: ">> \o NoSessionText
  /\ outcome = Return(VNull)


\* C4: a close event of a socket sets exactly one timer, due after the fixed
\* delay and carrying that socket's message handler; a timer that runs
\* creates one new connection with the timer's handler, not before it is
\* due; a malformed message changes neither the sockets nor the timers.
C4_Step ==
  /\ \A s \in DOMAIN sockets :
       (sockets[s].readyState # "CLOSED" /\ sockets'[s].readyState = "CLOSED") =>
         /\ timers' = Append(timers, [handler |-> sockets[s].onMessage,
                                      due |-> now + RECONNECT_DELAY])
         /\ Len(sockets') = Len(sockets)
  /\ Len(timers') > Len(timers) =>
       \E s \in DOMAIN sockets :
         sockets[s].readyState # "CLOSED" /\ sockets'[s].readyState = "CLOSED"
  /\ Len(timers') < Len(timers) =>
       /\ now >= Head(timers).due
       /\ timers' = Tail(timers)
       /\ Len(sockets') = Len(sockets) + 1
       /\ sockets'[Len(sockets')].onMessage = Head(timers).handler
       /\ sockets'[Len(sockets')].readyState = "CONNECTING"
       /\ \A s \in DOMAIN sockets : sockets'[s] = sockets[s]
  /\ parseErrors' # parseErrors => (sockets' = sockets /\ timers' = timers)

C4_CloseSchedulesOneReconnect == [][C4_Step]_vars

\* a connection made by a reconnection, for the second handler, after a
\* malformed message was received
C4_Witness ==
  /\ parseErrors > 0
  /\ \E s \in DOMAIN sockets :
       ~sockets[s].held /\ sockets[s].onMessage = "h2"
  /\ \E s \in DOMAIN sockets :
       sockets[s].held /\ sockets[s].onMessage = "h2"
         /\ sockets[s].readyState = "CLOSED"

\* C5 as stated: upload.uploadFile and every auth method fail whenever their
\* underlying request fails.
C5_Original ==
  (method \in AuthMethods \cup {"upload.uploadFile"} /\ RequestFailed) =>
    outcome.kind = "throw"

\* C5 amended: upload.uploadFile, register, login and logout fail whenever
\* their request fails; getSession fails unless the message contains
\* "No session token provided", where it returns null; checkAuth never
\* fails and returns a result with isAuthenticated false.
C5_Amended ==
  /\ (method \in {"upload.uploadFile", "auth.register", "auth.login",
                  "auth.logout"} /\ RequestFailed) =>
       outcome.kind = "throw"
  /\ (method = "auth.getSession" /\ RequestFailed) =>
       IF Includes(ReqResult.error.message, NoSessionText)
       THEN outcome.kind = "return" /\ outcome.value = VNull
       ELSE outcome.kind = "throw"
  /\ (method = "auth.checkAuth" /\ RequestFailed) =>
       /\ outcome.kind = "return"
       /\ ~outcome.value.isAuthenticated
       /\ outcome.value.user = VNull

C5_Witness ==
  /\ method = "auth.checkAuth"
  /\ RequestFailed
  /\ outcome.kind = "return"
  /\ ~outcome.value.isAuthenticated

\* the headers option of the caller, empty when there is none
CallerHeadersOf(o) == IF "headers" \in DOMAIN o THEN o["headers"] ELSE EmptyObj
BodyKind(o) == IF "body" \in DOMAIN o THEN o["body"].kind ELSE "none"

UploadGotResponse ==
  /\ pc = "done"
  /\ method = "upload.uploadFile"
  /\ net.type = "response"
  /\ ResponseOk(net)
  /\ ReqResult.kind = "return"

\* C7: uploadFile fails with "Invalid response from server" when the
\* response of a successful request has no url field, and returns the
\* response only when it has one.
C7_UploadNeedsUrl ==
  UploadGotResponse =>
    /\ "url" \notin DOMAIN ReqResult.value =>
         outcome = Throw(NewError(InvalidResponseText))
    /\ outcome.kind = "return" =>
         /\ "url" \in DOMAIN outcome.value
         /\ outcome.value = ReqResult.value

C7_Witness ==
  /\ UploadGotResponse
  /\ ReqResult.value.kind = "object"
  /\ "url" \notin DOMAIN ReqResult.value
  /\ outcome = Throw(NewError(InvalidResponseText))

\* the posts seeded for a community id: ids 1, 2 and 3 have one post each
SeededPosts(id) ==
  IF IdToString(id) = <<"1">> THEN <<MockPost101>>
  ELSE IF IdToString(id) = <<"2">> THEN <<MockPost102>>
  ELSE IF IdToString(id) = <<"3">> THEN <<MockPost103>>
  ELSE <<>>

C9_MockCommunitiesOnFailure ==
  (pc = "done" /\ method = "communities.getCommunities" /\ net.type = "reject") =>
    /\ outcome.kind = "return"
    /\ outcome.value.total = 5
    /\ Len(outcome.value.communities.items) = 5
    /\ \A i \in 1..5 : outcome.value.communities.items[i].id = i
    /\ outcome.value.communities.items = mockCommunities

C9_Witness ==
  /\ pc = "done"
  /\ method = "communities.getCommunities"
  /\ net.type = "reject"
  /\ outcome.kind = "return"
  /\ outcome.value.total = 5

\* the message the claim gives to a failed JSON response: the body's error
\* field, or the generic message when it is absent or empty
ClaimedMessage(body) ==
  IF body.kind = "object" /\ "error" \in DOMAIN body /\ body.error.s # <<>>
  THEN body.error.s
  ELSE GenericErrorText

\* C10: for a response whose body parses, JSON and ok returns the parsed
\* body; JSON and not ok fails with the body's error field, or with
\* "An error occurred" when it is absent or empty; non-JSON and not ok fails
\* with "An error occurred"; non-JSON and ok returns the response object.
C10_OutcomeTable ==
  (pc = "done" /\ method = "fetchAPI" /\ net.type = "response") =>
    IF ContentTypeIsJson(net)
    THEN net.body.kind # "text" =>
           IF ResponseOk(net)
           THEN outcome = Return(net.body)
           ELSE /\ outcome.kind = "throw"
                /\ outcome.error.message = ClaimedMessage(net.body)
    ELSE IF ResponseOk(net)
         THEN outcome.kind = "return" /\ outcome.value.kind = "response"
         ELSE /\ outcome.kind = "throw"
              /\ outcome.error.message = GenericErrorText


\* the sockets whose close event has not happened yet
LiveSockets == {s \in DOMAIN sockets : sockets[s].readyState # "CLOSED"}

\* C11: after one initial connectWebSocket call there is always exactly one
\* of a single not-yet-closed socket or a single pending reconnect timer:
\* never two of them, and never none, whatever events arrive and whether or
\* not the caller closes the handle it was given.
C11_OneSocketOrOneTimer ==
  initialCalls = 1 =>
    /\ Cardinality(LiveSockets) + Len(timers) = 1
    /\ Cardinality(LiveSockets) <= 1
    /\ Len(timers) <= 1

\* the caller has closed its handle (CLOSING is entered only by close()),
\* and that socket is the single live one
C11_Witness ==
  /\ initialCalls = 1
  /\ \E s \in DOMAIN sockets :
       sockets[s].held /\ sockets[s].readyState = "CLOSING"
  /\ timers = <<>>


\* getCommunity on a failed request, by the integer value of the id
C12_ByIntegerValue ==
  (method = "communities.getCommunity" /\ RequestFailed) =>
    LET k == parseInt(args["communityId"])
    IN IF ~k.isNaN /\ k.n \in 1..5
       THEN /\ outcome.kind = "return"
            /\ outcome.value.id = k.n
            /\ outcome.value.members = <<>>
            /\ outcome.value = [mockCommunities[k.n] EXCEPT !.members = <<>>]
       ELSE outcome = ReqResult

\* the integer values of some ids, written out: "04" and 4 are community 4,
\* "1a" is community 1; "a", "10", 0 and 6 are no mock community
C12_Cases ==
  (method = "communities.getCommunity" /\ RequestFailed) =>
    LET id == args["communityId"]
    IN /\ id \in {[t |-> "str", s |-> <<"0", "4">>], [t |-> "num", n |-> 4]} =>
            outcome.kind = "return" /\ outcome.value.id = 4
       /\ id = [t |-> "str", s |-> <<"1", "a">>] =>
            outcome.kind = "return" /\ outcome.value.id = 1
       /\ id \in {[t |-> "str", s |-> <<"a">>], [t |-> "str", s |-> <<"1", "0">>],
                  [t |-> "num", n |-> 0], [t |-> "num", n |-> 6]} =>
            outcome = ReqResult

\* C12: when the request fails, communities.getCommunity returns a copy of
\* the mock community whose id is the integer value of communityId, with an
\* empty members list, when there is one; for every other id it fails with
\* the error of the request, unchanged.
C12_MockCommunityOnFailure == C12_ByIntegerValue /\ C12_Cases

\* a string id with a trailing letter, whose integer value is 1
C12_Witness ==
  /\ method = "communities.getCommunity"
  /\ RequestFailed
  /\ args["communityId"] = [t |-> "str", s |-> <<"1", "a">>]
  /\ outcome.kind = "return"
  /\ outcome.value.id = 1
  /\ outcome.value.title = "Cancer Survivors Support"


====
